---- MODULE Spec2Model ----
(***************************************************************************)
(* Model of the CSV/Excel -> Oracle loader (src/app.py).                   *)
(*                                                                         *)
(*   SpecSan  : sanitize_identifier applied once and twice to bounded      *)
(*              header texts.                                              *)
(*   SpecDDL  : build_create_table_sql applied to bounded datasets.        *)
(*   Spec     : the Streamlit script runs and the upload button handler,   *)
(*              one action per database round trip, against a model of    *)
(*              the Oracle catalog and of the session's transaction.       *)
(***************************************************************************)
EXTENDS Integers, Sequences, FiniteSets, TLC

VARIABLES
    \* ---- sanitize_identifier harness
    sanIn, sanOut, sanTwice, sanPc,
    \* ---- build_create_table_sql harness
    ddlSchema, ddlTable, ddlDf, ddlSql, ddlPc,
    \* ---- widgets of the current script run (src/app.py:118-129)
    schema, table_name, create_if_missing, uploaded_file,
    \* ---- script globals of the current run
    df,                 \* "undefined" or a dataset
    \* ---- the upload button handler
    pc, checked, exists, issued, sql, errors, successes, logged, exc, failedAt,
    createdCommitted, rows0,
    \* ---- the database and the session's open transaction
    catalog, rows, pending,
    \* ---- history
    runs, prev

sanVars == <<sanIn, sanOut, sanTwice, sanPc>>
ddlVars == <<ddlSchema, ddlTable, ddlDf, ddlSql, ddlPc>>
widgetVars == <<schema, table_name, create_if_missing, uploaded_file>>
handlerVars == <<pc, checked, exists, issued, sql, errors, successes, logged, exc,
                 failedAt, createdCommitted, rows0>>
dbVars == <<catalog, rows, pending>>
loaderVars == <<widgetVars, df, handlerVars, dbVars, runs, prev>>
vars == <<sanVars, ddlVars, loaderVars>>

Min(a, b) == IF a < b THEN a ELSE b

(***************************************************************************)
(* Bounds                                                                  *)
(***************************************************************************)
MaxLead == 2        \* free characters in front of the padding of a header
MaxTail == 1        \* free characters behind the padding of a header
PadSlack == 2       \* padding lengths reach MAX_IDENTIFIER_LEN +- PadSlack
MaxCols == 2        \* columns of a dataset given to the DDL builder
NumRows == 2        \* rows of the uploaded dataset
MaxRuns == 2        \* script runs with the upload button pressed

(***************************************************************************)
(* Text as sequences of characters.  A character is a one-element string;  *)
(* "sz" stands for U+00DF, whose str.upper() is the two characters "SS".   *)
(***************************************************************************)
MAX_IDENTIFIER_LEN == 30

InChars == {"a", "Z", "7", " ", "-", "_", "sz"}
PadChars == {"a", "7", " "}
TailChars == {" ", "7", "sz"}
WhiteSpace == {" "}
DigitChars == {"7"}
IdentChars == {"A", "S", "Z", "7", "_"}      \* the class [A-Z0-9_]

RECURSIVE lstrip(_)
lstrip(s) ==
    IF s # <<>> /\ Head(s) \in WhiteSpace THEN lstrip(Tail(s)) ELSE s

RECURSIVE rstrip(_)
rstrip(s) ==
    IF s # <<>> /\ s[Len(s)] \in WhiteSpace
    THEN rstrip(SubSeq(s, 1, Len(s) - 1)) ELSE s

strip(s) == rstrip(lstrip(s))

upperChar(c) ==
    CASE c = "a"  -> <<"A">>
      [] c = "sz" -> <<"S", "S">>
      [] OTHER    -> <<c>>

RECURSIVE upper(_)
upper(s) == IF s = <<>> THEN <<>> ELSE upperChar(Head(s)) \o upper(Tail(s))

\* re.sub(r"[^A-Z0-9_]", "_", name)
reSubNonIdent(s) ==
    [i \in 1..Len(s) |-> IF s[i] \in IdentChars THEN s[i] ELSE "_"]

\* re.match(r"^\d", name)
startsWithDigit(s) == s # <<>> /\ s[1] \in DigitChars

truncate(s) == SubSeq(s, 1, Min(Len(s), MAX_IDENTIFIER_LEN))

\* bug variants of sanitize_identifier
sanitize_truncate_first(name) ==
    LET n == truncate(reSubNonIdent(upper(strip(name))))
    IN  IF startsWithDigit(n) THEN <<"_">> \o n ELSE n

sanitize_no_digit_prefix(name) ==
    truncate(reSubNonIdent(upper(strip(name))))

sanitize_identifier(name) ==
    LET stripped == upper(strip(name))
        replaced == reSubNonIdent(stripped)
        prefixed == IF startsWithDigit(replaced)
                    THEN <<"_">> \o replaced ELSE replaced
    IN  truncate(prefixed)

(***************************************************************************)
(* Header texts: lead \o padding \o tail                                   *)
(***************************************************************************)
SeqsUpTo(S, n) == UNION {[1..k -> S] : k \in 0..n}
Rep(c, n) == [i \in 1..n |-> c]
PadLens ==
    {0} \cup ((MAX_IDENTIFIER_LEN - PadSlack)..(MAX_IDENTIFIER_LEN + PadSlack))
Headers ==
    {lead \o Rep(c, n) \o tail :
        lead \in SeqsUpTo(InChars, MaxLead),
        c \in PadChars, n \in PadLens,
        tail \in SeqsUpTo(TailChars, MaxTail)}

(***************************************************************************)
(* Datasets: a sequence of columns, each a label and a pandas dtype.       *)
(* Labels need not be distinct (two headers can sanitize to one label).    *)
(***************************************************************************)
ColNames == {"ID", "NAME"}
Dtypes == {"int64", "float64", "datetime64[ns]", "object", "bool"}
Columns == [name : ColNames, dtype : Dtypes]
Frames == SeqsUpTo(Columns, MaxCols)

\* pd.api.types.is_integer_dtype / is_float_dtype / is_datetime64_any_dtype:
\* each reads the argument's .dtype; a DataFrame has none and matches nothing.
is_integer_dtype(col) == col.kind = "Series" /\ col.dtype = "int64"
is_float_dtype(col) == col.kind = "Series" /\ col.dtype = "float64"
is_datetime64_any_dtype(col) ==
    col.kind = "Series" /\ col.dtype = "datetime64[ns]"

\* df[c]: selection by label; a label carried by one column gives that
\* column (a Series), a label carried by several gives a DataFrame of them.
getitem(frame, c) ==
    LET hits == {i \in 1..Len(frame) : frame[i].name = c}
    IN  IF Cardinality(hits) = 1
        THEN [kind |-> "Series", dtype |-> frame[CHOOSE i \in hits : TRUE].dtype]
        ELSE [kind |-> "DataFrame", dtype |-> "none"]

infer_oracle_type(col) ==
    IF is_integer_dtype(col) THEN "NUMBER"
    ELSE IF is_float_dtype(col) THEN "NUMBER"
    ELSE IF is_datetime64_any_dtype(col) THEN "TIMESTAMP"
    ELSE "VARCHAR2(4000)"

\* sep.join(list)
RECURSIVE join(_, _)
join(sep, list) ==
    IF list = <<>> THEN ""
    ELSE IF Len(list) = 1 THEN list[1]
    ELSE list[1] \o sep \o join(sep, Tail(list))

\* f"{schema}.{table}" if schema else table
qualified(sch, table) == IF sch # "" THEN sch \o "." \o table ELSE table

build_create_table_sql(sch, table, frame) ==
    LET cols == [i \in 1..Len(frame) |->
                    frame[i].name \o " "
                        \o infer_oracle_type(getitem(frame, frame[i].name))]
        full == qualified(sch, table)
    IN  "CREATE TABLE " \o full \o " (\n" \o join(",\n", cols) \o "\n)"

(***************************************************************************)
(* The loader: names, the uploaded file, the database                      *)
(***************************************************************************)
user == "u"                         \* the "User" widget, fixed
Schemas == {"", "s"}                \* the "Schema (optional)" widget
TableNames == {"T", "t"}            \* the "Destination Table" widget
Uploads == {"none", "ok", "malformed"}

\* str.upper() on the names above; Oracle folds an unquoted identifier of a
\* statement the same way.
str_upper(s) ==
    CASE s = "t" -> "T"
      [] s = "s" -> "S"
      [] s = "u" -> "U"
      [] OTHER   -> s

AllTables == {"U", "S"} \X {"T"}    \* <<owner, name>> as the catalog holds them

\* the table a statement on [schema.]table names
resolve(sch, table) ==
    <<IF sch # "" THEN str_upper(sch) ELSE str_upper(user), str_upper(table)>>

\* headers of the uploaded file and the dtypes pandas gives its columns
RawHeaders == << <<"a">>, <<" ", "7", "-", "a">> >>
RawDtypes == <<"int64", "object">>

RECURSIVE text(_)
text(s) == IF s = <<>> THEN "" ELSE Head(s) \o text(Tail(s))

Undefined == [defined |-> FALSE, cols |-> <<>>, nrows |-> 0]

read_file ==
    [defined |-> TRUE,
     cols |-> [i \in 1..Len(RawHeaders) |->
                  [name |-> RawHeaders[i], dtype |-> RawDtypes[i]]],
     nrows |-> NumRows]

sanitize_columns(frame) ==
    [frame EXCEPT !.cols =
        [i \in 1..Len(frame.cols) |->
            [name |-> text(sanitize_identifier(frame.cols[i].name)),
             dtype |-> frame.cols[i].dtype]]]

\* SELECT COUNT(*) FROM ALL_TABLES WHERE OWNER = :o AND TABLE_NAME = :t
table_exists(sch, table) ==
    LET owner == IF sch # "" THEN str_upper(sch) ELSE str_upper(user)
    IN  <<owner, table>> \in catalog

insert_sql(sch, table, frame) ==
    LET cols == [i \in 1..Len(frame) |-> frame[i].name]
        binds == join(",", [i \in 1..Len(cols) |-> ":" \o ToString(i)])
        full == qualified(sch, table)
    IN  "INSERT INTO " \o full \o " (" \o join(",", cols) \o ") VALUES ("
            \o binds \o ")"

\* exceptions; str(e) is the message
NoExc == [type |-> "none", msg |-> ""]
NameErr == [type |-> "NameError", msg |-> "name 'df' is not defined"]
DbErr(code) == [type |-> "DatabaseError", msg |-> code]
str(e) == e.msg

MsgMissing == "Table does not exist"
MsgCreated == "Table created"
MsgInserted == "Data inserted successfully"
MsgLoaded(frame) == "Loaded " \o ToString(frame.nrows) \o " rows"

NoPrev ==
    [valid |-> FALSE, schema |-> "", table |-> "", upload |-> "none",
     cim |-> FALSE, created |-> FALSE, failedAt |-> "", target |-> <<"U", "T">>]

(***************************************************************************)
(* Initial states                                                          *)
(***************************************************************************)
SanIdle ==
    /\ sanIn = <<>> /\ sanOut = <<>> /\ sanTwice = <<>> /\ sanPc = "off"

DdlIdle ==
    /\ ddlSchema = "" /\ ddlTable = "" /\ ddlDf = <<>> /\ ddlSql = ""
    /\ ddlPc = "off"

LoaderInit ==
    /\ schema = "" /\ table_name = "T" /\ create_if_missing = TRUE
    /\ uploaded_file = "none"
    /\ df = Undefined
    /\ pc = "idle" /\ checked = FALSE /\ exists = FALSE
    /\ issued = <<>> /\ sql = <<>> /\ errors = <<>> /\ successes = <<>>
    /\ logged = 0 /\ exc = NoExc /\ failedAt = ""
    /\ createdCommitted = FALSE
    /\ catalog \in SUBSET AllTables         \* tables may pre-exist, empty
    /\ rows = [t \in AllTables |-> 0]
    /\ rows0 = rows
    /\ pending = 0
    /\ runs = 0 /\ prev = NoPrev

Init == SanIdle /\ DdlIdle /\ LoaderInit

\* if uploaded_file: df = sanitize_columns(read_file(uploaded_file))
\* (each script run starts from an empty namespace)
fileBlock_kept(upl) == sanitize_columns(read_file)

fileBlock(upl) ==
    IF upl = "ok" THEN sanitize_columns(read_file) ELSE Undefined

(***************************************************************************)
(* One script run: widgets are read, the file block runs, and the button   *)
(* handler starts when the button was pressed.                             *)
(***************************************************************************)
Rerun(sch, tbl, cim, upl, pressed) ==
    /\ pc = "idle"
    /\ pressed => runs < MaxRuns
    /\ schema' = sch /\ table_name' = tbl /\ create_if_missing' = cim
    /\ uploaded_file' = upl
    /\ issued' = <<>> /\ sql' = <<>> /\ errors' = <<>>
    /\ logged' = 0 /\ exc' = NoExc /\ failedAt' = ""
    /\ checked' = FALSE /\ exists' = FALSE /\ createdCommitted' = FALSE
    /\ rows0' = rows
    /\ df' = fileBlock(upl)
    /\ successes' = IF upl = "ok" THEN <<MsgLoaded(read_file)>> ELSE <<>>
    \* a malformed file makes read_file raise outside the try block: the
    \* script run ends there and the button handler is not reached
    /\ IF pressed /\ upl # "malformed"
       THEN pc' = "connect" /\ runs' = runs + 1
       ELSE pc' = "idle" /\ runs' = runs
    /\ UNCHANGED <<dbVars, prev, sanVars, ddlVars>>

\* except Exception as e: logger.exception(...); st.error(str(e))
OnException_twice(step, e) ==
    /\ logged' = logged + 1
    /\ errors' = errors \o <<MsgMissing, str(e)>>
    /\ exc' = e /\ failedAt' = step
    /\ pc' = "failed"

OnException(step, e) ==
    /\ logged' = logged + 1
    /\ errors' = Append(errors, str(e))
    /\ exc' = e /\ failedAt' = step
    /\ pc' = "failed"

Connect(fail) ==
    /\ pc = "connect"
    /\ issued' = Append(issued, "connect")
    /\ IF fail
       THEN OnException("connect", DbErr("ORA-12541"))
       ELSE pc' = "check" /\ UNCHANGED <<errors, logged, exc, failedAt>>
    /\ UNCHANGED <<widgetVars, df, checked, exists, sql, successes,
                   createdCommitted, rows0, dbVars, runs, prev,
                   sanVars, ddlVars>>

\* the branch after the existence check
afterCheck_always_stop(ex, cim) ==
    IF ~cim THEN "stopped" ELSE IF ~ex THEN "create" ELSE "insert"

afterCheck_no_stop(ex, cim) == IF ~ex THEN "create" ELSE "insert"

afterCheck(ex, cim) ==
    IF ~ex
    THEN IF ~cim THEN "stopped" ELSE "create"
    ELSE "insert"

TableExists(fail) ==
    /\ pc = "check"
    /\ issued' = Append(issued, "check")
    /\ IF fail
       THEN /\ OnException("check", DbErr("ORA-01031"))
            /\ UNCHANGED <<checked, exists>>
       ELSE LET ex == table_exists(schema, table_name)
                nxt == afterCheck(ex, create_if_missing)
            IN  /\ checked' = TRUE /\ exists' = ex
                /\ pc' = nxt
                /\ errors' = IF nxt = "stopped"
                             THEN Append(errors, MsgMissing) ELSE errors
                /\ UNCHANGED <<logged, exc, failedAt>>
    /\ UNCHANGED <<widgetVars, df, sql, successes, createdCommitted, rows0,
                   dbVars, runs, prev, sanVars, ddlVars>>

\* create_table(conn, schema, table_name, df): the argument df is evaluated
\* first; CREATE TABLE commits implicitly in Oracle and fails with ORA-00955
\* when the name is taken.
CreateTable(fail) ==
    /\ pc = "create"
    /\ IF ~df.defined
       THEN /\ OnException("create", NameErr)
            /\ UNCHANGED <<issued, sql, catalog, rows>>
       ELSE LET target == resolve(schema, table_name)
            IN  /\ issued' = Append(issued, "DDL")
                /\ sql' = Append(sql,
                        build_create_table_sql(schema, table_name, df.cols))
                /\ IF target \in catalog
                   THEN /\ OnException("create", DbErr("ORA-00955"))
                        /\ UNCHANGED <<catalog, rows>>
                   ELSE IF fail
                   THEN /\ OnException("create", DbErr("ORA-01031"))
                        /\ UNCHANGED <<catalog, rows>>
                   ELSE /\ catalog' = catalog \cup {target}
                        /\ rows' = [rows EXCEPT ![target] = 0]
                        /\ pc' = "commit_ddl"
                        /\ UNCHANGED <<errors, logged, exc, failedAt>>
    /\ UNCHANGED <<widgetVars, df, checked, exists, successes,
                   createdCommitted, rows0, pending, runs, prev,
                   sanVars, ddlVars>>

\* conn.commit(); st.success("Table created")
CommitDDL_skipped(fail) ==
    /\ pc = "commit_ddl"
    /\ createdCommitted' = TRUE
    /\ successes' = Append(successes, MsgCreated)
    /\ pc' = "insert"
    /\ UNCHANGED <<widgetVars, df, checked, exists, issued, sql, errors,
                   logged, exc, failedAt, rows0, dbVars, runs, prev,
                   sanVars, ddlVars>>

CommitDDL(fail) ==
    /\ pc = "commit_ddl"
    /\ issued' = Append(issued, "commit")
    /\ IF fail
       THEN /\ OnException("commit_ddl", DbErr("ORA-03113"))
            /\ UNCHANGED <<createdCommitted, successes>>
       ELSE /\ createdCommitted' = TRUE
            /\ successes' = Append(successes, MsgCreated)
            /\ pc' = "insert"
            /\ UNCHANGED <<errors, logged, exc, failedAt>>
    /\ UNCHANGED <<widgetVars, df, checked, exists, sql, rows0, dbVars,
                   runs, prev, sanVars, ddlVars>>

\* cur.executemany(sql, rows) failing at row k: the rows bound before it stay
\* in the session's open transaction, nothing is committed
executemany_fails_autocommit(target, k) ==
    /\ pending' = 0
    /\ rows' = [rows EXCEPT ![target] = @ + (k - 1)]

executemany_fails(target, k) ==
    /\ pending' = pending + (k - 1)
    /\ rows' = rows

\* insert_dataframe(conn, schema, table_name, df)
Insert(fail, k) ==
    /\ pc = "insert"
    /\ IF ~df.defined
       THEN /\ OnException("insert", NameErr)
            /\ UNCHANGED <<issued, sql, pending, rows>>
       ELSE LET target == resolve(schema, table_name)
            IN  /\ issued' = Append(issued, "INSERT")
                /\ sql' = Append(sql, insert_sql(schema, table_name, df.cols))
                /\ IF target \notin catalog
                   THEN /\ OnException("insert", DbErr("ORA-00942"))
                        /\ UNCHANGED <<pending, rows>>
                   ELSE IF fail
                   THEN /\ OnException("insert", DbErr("ORA-01722"))
                        /\ executemany_fails(target, k)
                   ELSE /\ pending' = pending + df.nrows
                        /\ pc' = "commit_ins"
                        /\ UNCHANGED <<rows, errors, logged, exc, failedAt>>
    /\ UNCHANGED <<widgetVars, df, checked, exists, successes,
                   createdCommitted, rows0, catalog, runs, prev,
                   sanVars, ddlVars>>

\* conn.commit(); st.success("Data inserted successfully")
CommitInsert(fail) ==
    /\ pc = "commit_ins"
    /\ issued' = Append(issued, "commit")
    /\ IF fail
       THEN /\ OnException("commit_ins", DbErr("ORA-03113"))
            /\ UNCHANGED <<successes, rows, pending>>
       ELSE LET target == resolve(schema, table_name)
            IN  /\ rows' = [rows EXCEPT ![target] = @ + pending]
                /\ pending' = 0
                /\ successes' = Append(successes, MsgInserted)
                /\ pc' = "done"
                /\ UNCHANGED <<errors, logged, exc, failedAt>>
    /\ UNCHANGED <<widgetVars, df, checked, exists, sql, createdCommitted,
                   rows0, catalog, runs, prev, sanVars, ddlVars>>

\* The script run ends: conn goes away with the run's namespace and the
\* session's uncommitted work is rolled back.
EndRun ==
    /\ pc \in {"done", "failed", "stopped"}
    /\ pending' = 0
    /\ prev' = [valid |-> TRUE, schema |-> schema, table |-> table_name,
                upload |-> uploaded_file, cim |-> create_if_missing,
                created |-> createdCommitted, failedAt |-> failedAt,
                target |-> resolve(schema, table_name)]
    /\ pc' = "idle"
    /\ UNCHANGED <<widgetVars, df, checked, exists, issued, sql, errors,
                   successes, logged, exc, failedAt, createdCommitted, rows0,
                   catalog, rows, runs, sanVars, ddlVars>>

Next ==
    \/ \E sch \in Schemas, tbl \in TableNames, cim \in BOOLEAN,
          upl \in Uploads, pressed \in BOOLEAN :
            Rerun(sch, tbl, cim, upl, pressed)
    \/ \E fail \in BOOLEAN : Connect(fail)
    \/ \E fail \in BOOLEAN : TableExists(fail)
    \/ \E fail \in BOOLEAN : CreateTable(fail)
    \/ \E fail \in BOOLEAN : CommitDDL(fail)
    \/ \E fail \in BOOLEAN, k \in 1..NumRows : Insert(fail, k)
    \/ \E fail \in BOOLEAN : CommitInsert(fail)
    \/ EndRun

Spec == Init /\ [][Next]_vars

TypeOK ==
    /\ pc \in {"idle", "connect", "check", "create", "commit_ddl", "insert",
               "commit_ins", "done", "failed", "stopped"}
    /\ catalog \subseteq AllTables
    /\ pending \in 0..NumRows
    /\ runs \in 0..MaxRuns

(***************************************************************************)
(* sanitize_identifier on bounded header texts                             *)
(***************************************************************************)
LoaderOff == LoaderInit /\ catalog = {}

InitSan ==
    /\ sanIn \in Headers
    /\ sanOut = <<>> /\ sanTwice = <<>> /\ sanPc = "start"
    /\ DdlIdle /\ LoaderOff

Sanitize ==
    /\ sanPc = "start"
    /\ sanOut' = sanitize_identifier(sanIn)
    /\ sanPc' = "once"
    /\ UNCHANGED <<sanIn, sanTwice, ddlVars, loaderVars>>

SanitizeAgain ==
    /\ sanPc = "once"
    /\ sanTwice' = sanitize_identifier(sanOut)
    /\ sanPc' = "twice"
    /\ UNCHANGED <<sanIn, sanOut, ddlVars, loaderVars>>

NextSan == Sanitize \/ SanitizeAgain

SpecSan == InitSan /\ [][NextSan]_vars

(***************************************************************************)
(* build_create_table_sql on bounded datasets                              *)
(***************************************************************************)
InitDDL ==
    /\ ddlSchema \in {"", "HR"}
    /\ ddlTable \in {"T", "EMP"}
    /\ ddlDf \in Frames
    /\ ddlSql = "" /\ ddlPc = "start"
    /\ SanIdle /\ LoaderOff

BuildDDL ==
    /\ ddlPc = "start"
    /\ ddlSql' = build_create_table_sql(ddlSchema, ddlTable, ddlDf)
    /\ ddlPc' = "built"
    /\ UNCHANGED <<ddlSchema, ddlTable, ddlDf, sanVars, loaderVars>>

NextDDL == BuildDDL

SpecDDL == InitDDL /\ [][NextDDL]_vars

(***************************************************************************)
(* Claims on sanitize_identifier (SpecSan)                                 *)
(***************************************************************************)
Range(s) == {s[i] : i \in 1..Len(s)}

\* C6: sanitize_identifier is idempotent and its result has at most 30
\* characters, also for inputs that start with a digit and inputs of 30 or
\* more characters (the underscore prefix is added before truncation).
C6_IdempotentBounded ==
    /\ sanPc \in {"once", "twice"} => Len(sanOut) <= 30
    /\ sanPc = "twice" => sanTwice = sanOut

C6_Witness ==
    /\ sanPc = "twice"
    /\ Len(sanIn) >= 30 /\ sanIn[1] \in DigitChars
    /\ sanOut[1] = "_" /\ Len(sanOut) = 30

\* C7: the result is empty, or consists of A-Z, 0-9 and underscore only, does
\* not start with a digit and has 1 to 30 characters; it is empty only when
\* the input is empty after trimming.
C7_ValidIdentifier ==
    sanPc \in {"once", "twice"} =>
        /\ \/ sanOut = <<>>
           \/ /\ Range(sanOut) \subseteq IdentChars
              /\ sanOut[1] \notin DigitChars
              /\ Len(sanOut) \in 1..30
        /\ sanOut = <<>> => Range(sanIn) \subseteq WhiteSpace

C7_Witness ==
    /\ sanPc = "once"
    /\ sanIn # <<>> /\ sanIn[1] \in DigitChars
    /\ {"-", "sz"} \subseteq Range(sanIn)
    /\ sanOut[1] = "_"

(***************************************************************************)
(* Claim on build_create_table_sql (SpecDDL)                               *)
(***************************************************************************)
\* the database type of a column of the given dtype
TypeOfDtype(d) ==
    CASE d = "int64" -> "NUMBER"
      [] d = "float64" -> "NUMBER"
      [] d = "datetime64[ns]" -> "TIMESTAMP"
      [] OTHER -> "VARCHAR2(4000)"

\* C8: the statement is "CREATE TABLE " + name + " (\n" + definitions joined
\* by ",\n" + "\n)", name being schema.table with a schema and the bare table
\* without, with one "<column name> <inferred type>" per dataset column in
\* column order; columns ID (integer), NAME (text), table T, no schema give
\* "CREATE TABLE T (\nID NUMBER,\nNAME VARCHAR2(4000)\n)".
C8_DDLText ==
    ddlPc = "built" =>
        LET name == IF ddlSchema # "" THEN ddlSchema \o "." \o ddlTable
                    ELSE ddlTable
            defs == [i \in 1..Len(ddlDf) |->
                        ddlDf[i].name \o " " \o TypeOfDtype(ddlDf[i].dtype)]
        IN  /\ ddlSql = "CREATE TABLE " \o name \o " (\n"
                            \o join(",\n", defs) \o "\n)"
            /\ ( /\ ddlSchema = "" /\ ddlTable = "T"
                 /\ ddlDf = <<[name |-> "ID", dtype |-> "int64"],
                              [name |-> "NAME", dtype |-> "object"]>> )
               => ddlSql = "CREATE TABLE T (\nID NUMBER,\nNAME VARCHAR2(4000)\n)"

(***************************************************************************)
(* Claims on the loader (Spec)                                             *)
(***************************************************************************)
IsPrefix(s, t) == Len(s) <= Len(t) /\ s = SubSeq(t, 1, Len(s))

Count(op) == Cardinality({i \in 1..Len(issued) : issued[i] = op})

CreatePath == <<"connect", "check", "DDL", "commit", "INSERT", "commit">>
InsertPath == <<"connect", "check", "INSERT", "commit">>

\* C1: when the check reports the table missing, create-if-missing is on and
\* no step fails, the loader issues CREATE TABLE, commit, INSERT, commit in
\* that order: one DDL, one INSERT, two commits.
C1_CreateCommitInsertCommit ==
    (checked /\ ~exists /\ create_if_missing) =>
        /\ pc \notin {"failed", "stopped"} => IsPrefix(issued, CreatePath)
        /\ pc = "commit_ddl" => issued = SubSeq(CreatePath, 1, 3)
        /\ pc = "commit_ins" => issued = SubSeq(CreatePath, 1, 5)
        /\ pc = "done" =>
              /\ issued = CreatePath
              /\ Count("DDL") = 1 /\ Count("INSERT") = 1
              /\ Count("commit") = 2

C1_Witness ==
    /\ pc = "done" /\ checked /\ ~exists /\ create_if_missing
    /\ createdCommitted
    /\ rows[resolve(schema, table_name)] = NumRows

\* C2 as stated: with an existing table and create-if-missing off the loader
\* aborts before any insert attempt and issues no DDL.
C2_AbortsOnExistingTable ==
    (checked /\ exists /\ ~create_if_missing) =>
        /\ pc \notin {"insert", "commit_ins", "done"}
        /\ "INSERT" \notin Range(issued)
        /\ "DDL" \notin Range(issued)

\* C2 amended: when the check reports the table existing and
\* create-if-missing is off, the loader issues no DDL and does not abort; the
\* step after the check is the batch INSERT, followed on success by one
\* commit.
C2_NoDDLOnExistingTable ==
    (checked /\ exists /\ ~create_if_missing) =>
        /\ "DDL" \notin Range(issued)
        /\ pc # "stopped" /\ MsgMissing \notin Range(errors)
        /\ pc \notin {"failed", "idle"} => IsPrefix(issued, InsertPath)
        /\ pc = "done" => issued = InsertPath

C2_Witness ==
    /\ pc = "done" /\ checked /\ exists /\ ~create_if_missing
    /\ issued = InsertPath

\* C3: when the check reports the table missing and create-if-missing is
\* off, the operation is aborted with the "table does not exist" message and
\* nothing further happens: no CREATE TABLE, no INSERT, no commit.
C3_AbortWhenMissing ==
    (checked /\ ~exists /\ ~create_if_missing) =>
        /\ pc \in {"stopped", "idle"}
        /\ errors = <<MsgMissing>>
        /\ issued = <<"connect", "check">>
        /\ rows = rows0 /\ pending = 0

C3_Witness ==
    /\ pc = "stopped" /\ checked /\ ~exists /\ ~create_if_missing
    /\ df.defined

\* the statements issued when the step failed
FailTraces(step) ==
    CASE step = "connect" -> {<<"connect">>}
      [] step = "check" -> {<<"connect", "check">>}
      [] step = "create" -> {<<"connect", "check">>, SubSeq(CreatePath, 1, 3)}
      [] step = "commit_ddl" -> {SubSeq(CreatePath, 1, 4)}
      [] step = "insert" -> {<<"connect", "check">>, SubSeq(InsertPath, 1, 3),
                             SubSeq(CreatePath, 1, 4), SubSeq(CreatePath, 1, 5)}
      [] step = "commit_ins" -> {InsertPath, CreatePath}
      [] OTHER -> {}

C4_Failed ==
    failedAt # "" =>
        /\ pc \in {"failed", "idle"}
        /\ issued \in FailTraces(failedAt)
        /\ logged = 1
        /\ errors = <<str(exc)>> /\ exc # NoExc
        /\ rows = rows0

C4_NoLaterStep ==
    pc = "failed" =>
        /\ pc' = "idle"
        /\ issued' = issued /\ errors' = errors /\ logged' = logged
        /\ rows' = rows /\ catalog' = catalog /\ pending' = 0

\* C4: a failure at any loader step abandons the operation: no later step
\* runs, none is retried, none of the dataset's rows is committed, the error
\* is logged once and exactly one error message, str(e), is shown.
C4_FailureAbandons == []C4_Failed /\ [][C4_NoLaterStep]_vars

C4_Witness ==
    /\ pc = "failed" /\ failedAt = "insert"
    /\ pending > 0 /\ createdCommitted
    /\ issued = SubSeq(CreatePath, 1, 5)

\* C5: when the table was created and committed and the INSERT (or its
\* commit) then fails, nothing undoes the creation: at the end of the
\* invocation the table exists and holds none of the dataset's rows.
C5_TableLeftEmpty ==
    (createdCommitted /\ failedAt \in {"insert", "commit_ins"}) =>
        /\ resolve(schema, table_name) \in catalog
        /\ rows[resolve(schema, table_name)] = 0
        /\ pc = "idle" => pending = 0

C5_Witness ==
    /\ pc = "idle" /\ createdCommitted /\ failedAt = "insert"
    /\ prev.valid /\ prev.created
    /\ resolve(schema, table_name) \in catalog

\* C9: after an invocation whose table creation committed and whose insert
\* failed, the next invocation with the same schema, table name and dataset
\* finds the table, issues no CREATE TABLE and goes straight to the INSERT
\* and one commit.
C9_RetrySkipsCreate ==
    ( /\ pc # "idle" /\ checked
      /\ prev.valid /\ prev.created
      /\ prev.failedAt \in {"insert", "commit_ins"}
      /\ schema = prev.schema /\ table_name = prev.table
      /\ uploaded_file = prev.upload ) =>
        /\ exists
        /\ "DDL" \notin Range(issued)
        /\ pc = "done" => issued = InsertPath

C10_NoDataset ==
    uploaded_file = "none" =>
        /\ ~df.defined
        /\ {"DDL", "INSERT", "commit"} \cap Range(issued) = {}
        /\ pc \in {"create", "insert"} => issued = <<"connect", "check">>
        /\ pc \notin {"commit_ddl", "commit_ins", "done"}
        /\ failedAt \in {"create", "insert"} =>
              /\ exc = NameErr
              /\ logged = 1 /\ errors = <<str(NameErr)>>
        /\ rows = rows0 /\ pending = 0

C10_DatasetStepFails ==
    (uploaded_file = "none" /\ pc \in {"create", "insert"}) =>
        /\ pc' = "failed"
        /\ logged' = 1 /\ Len(errors') = 1
        /\ catalog' = catalog /\ rows' = rows

\* C10: a trigger without an uploaded file still connects and runs the
\* existence check, but issues no CREATE TABLE, no INSERT and no commit,
\* whatever the check reports and whatever create-if-missing is; the step
\* that needs the dataset ends the invocation in the failure path with one
\* logged error and one message.
C10_NoFile == []C10_NoDataset /\ [][C10_DatasetStepFails]_vars

C10_Witness ==
    /\ uploaded_file = "none" /\ pc = "failed" /\ failedAt = "create"
    /\ exc = NameErr /\ issued = <<"connect", "check">>

====
